---- MODULE Spec2Model ----
(***************************************************************************)
(* Verification model of the MD5 collision demonstration repository:       *)
(*   - chosen-prefix/src/CA_Experiment: find_payload / overlay and the     *)
(*     two-template certificate pipeline,                                  *)
(*   - tools/verify_all.py: the manifest verifier command line,            *)
(*   - reusable-format/pdf/src/pdf.py: adjustPDF (xref repair).            *)
(* Byte strings are sequences of integers 0..255.  Operators that model    *)
(* Python code take and return Python (0-based) indices.                   *)
(***************************************************************************)
EXTENDS Integers, Sequences, FiniteSets, TLC

\* ------------------------------------------------------------------------
\* Bounds of the model (not program constants)
\* ------------------------------------------------------------------------
\* largest declared capacity / content size of the small hand-made templates
MaxCap == 3
\* longest linking block S of the small overlay inputs
MaxS == 2
\* longest collision block SA / SB of the certificate pipeline
MaxBlock == 2
\* most manifest paths on the verify_all command line
MaxManifests == 2
\* most entries of a manifest's "artifacts" list
MaxArts == 2
\* highest object number of the small PDF inputs
MaxObj == 2
\* longest artifact file the analyzers are run on (besides the fixed samples)
MaxFile == 3
\* most pieces (segments, markers, stray bytes) of the JPEG inputs after the head
MaxPieces == 3
\* most bytes behind the fixed ten bytes of the gzip inputs
MaxTail == 3
\* longest file handed to pad_file (two blocks and a little more)
MaxPadLen == 130
\* longest payload wrapped by make_pdf
MaxPayload == 3
\* longest visible title given to make_pdf
MaxTitle == 3

VARIABLES
    \* overlay(): one call on arbitrary files
    ov_tbs,          \* contents of tbs_path
    ov_S,            \* contents of s_path
    ov_prefix_len,   \* the prefix_len argument
    ov_out_exists,   \* whether out_path exists
    ov_out,          \* contents of out_path (<< >> while it does not exist)
    ov_pc,           \* "call", "returned" or "raised"
    ov_err,          \* the message of the exception raised, "" if none
    ov_found,        \* <<payload_start, payload_len>> of find_payload, <<-1, -1>> if it raised
    \* the certificate pipeline: build_tbs_templates.py, then overlay_cpc_into_tbs.py
    ca_fields,       \* DER of the TBS fields that depend on demo_pub.pem only
    ca_SA,           \* SA.bin
    ca_SB,           \* SB.bin
    ca_tbsA,         \* tbs_prefixA.der (<< >> while it does not exist)
    ca_tbsB,         \* tbs_prefixB.der
    ca_finalA,       \* tbsA_final.der
    ca_finalB,       \* tbsB_final.der
    ca_pc,           \* "build_A", "build_B", "overlay_A", "overlay_B", "done", "raised"
    ca_offA,         \* offset at which SA was written (off of the first overlay call), -1 before
    ca_offB,         \* offset at which SB was written (off of the second overlay call), -1 before
    \* tools/verify_all.py: main()
    va_manifests,    \* manifest_paths after glob resolution: what each path holds
    va_i,            \* number of manifest paths the loop has handled
    va_results,      \* results
    va_pc,           \* "loop", "report", "exited"
    va_exit,         \* exit status of the process, -1 while it runs
    \* reusable-format/pdf/src/pdf.py: adjustPDF and the write of hacked.pdf
    pdf_in,          \* contents handed to adjustPDF (line 197)
    pdf_out,         \* contents returned by it (<< >> before, or when it raised)
    pdf_err,         \* the exception adjustPDF raised, "" if none
    pdf_mismatch,    \* the assertion len(xref) == len(origXref) failed (and was printed)
    pdf_objCount,    \* objCount as parsed, -1 before or when the parse raised
    pdf_hacked_exists, \* hacked.pdf has been written
    pdf_hacked,      \* contents of hacked.pdf
    pdf_again,       \* adjustPDF applied to its own output: [err, out]
    pdf_pc,          \* "start", "adjusted", "raised", "written", "readjusted"
    \* analyze() of verify_reusable.py and of verify_identical.py
    an_tool,         \* "reusable" or "identical": which analyzer runs
    an_fmt,          \* the fmt argument of verify_reusable ("none" for verify_identical)
    an_exists,       \* the two artifact files exist
    an_c1,           \* contents of the first artifact
    an_c2,           \* contents of the second artifact
    an_fd,           \* what first_diff returned (FdUnset before the call)
    an_suffix,       \* what common_suffix_start returned, -1 while not called
    an_written,      \* names of the output files this run has written
    an_err,          \* the error analyze() ended with, "" if none
    an_pc,           \* "start", "diffed", "heads", "formatted", "done", "exit"
    \* jpeg_find_second_com: the while loop, one iteration at a time
    jp_data,         \* data
    jp_i,            \* i at the loop test
    jp_com_seen,     \* com_seen
    jp_res,          \* the value returned (JpUnset while in the loop)
    jp_pc,           \* "entry", "loop", "returned"
    \* gzip_parse_header: one call
    gz_b,            \* b
    gz_res,          \* [err, off, valid] once it has returned or raised
    gz_pc,           \* "call", "returned", "raised"
    \* pad_to_block.py: pad_file(path) applied twice to one file
    pad_in,          \* contents of the file before the first call
    pad_data,        \* contents of the file now
    pad_writes,      \* number of write_bytes calls so far
    pad_first,       \* contents of the file after the first call
    pad_pc,          \* "first", "second", "done"
    \* pdf_wrap.py: make_pdf(payload_bytes, visible_title)
    mk_payload,      \* payload_bytes
    mk_title,        \* visible_title (as bytes)
    mk_out,          \* the bytes returned
    mk_pc,           \* "call", "returned", "returned2"
    \* pdf_wrap.py run a second time, for the other file of the pair
    mk_payload2,     \* payload_bytes of the second run
    mk_title2,       \* visible_title of the second run
    mk_out2          \* the bytes the second run's make_pdf returned

ovVars == << ov_tbs, ov_S, ov_prefix_len, ov_out_exists, ov_out, ov_pc, ov_err, ov_found >>

caVars == << ca_fields, ca_SA, ca_SB, ca_tbsA, ca_tbsB, ca_finalA, ca_finalB,
             ca_pc, ca_offA, ca_offB >>

vaVars == << va_manifests, va_i, va_results, va_pc, va_exit >>

pdfVars == << pdf_in, pdf_out, pdf_err, pdf_mismatch, pdf_objCount,
              pdf_hacked_exists, pdf_hacked, pdf_again, pdf_pc >>

anVars == << an_tool, an_fmt, an_exists, an_c1, an_c2, an_fd, an_suffix,
             an_written, an_err, an_pc >>

jpVars == << jp_data, jp_i, jp_com_seen, jp_res, jp_pc >>

gzVars == << gz_b, gz_res, gz_pc >>

padVars == << pad_in, pad_data, pad_writes, pad_first, pad_pc >>

mkVars == << mk_payload, mk_title, mk_out, mk_pc, mk_payload2, mk_title2, mk_out2 >>

\* the variables of the certificate, verify_all and pdf.py programs
coreVars == << ovVars, caVars, vaVars, pdfVars >>

vars == << coreVars, anVars, jpVars, gzVars, padVars, mkVars >>

\* ------------------------------------------------------------------------
\* Python built-ins on bytes, as the code uses them
\* ------------------------------------------------------------------------
Zeros(n) == [i \in 1..n |-> 0]

MinOf(S) == CHOOSE x \in S : \A y \in S : x <= y

\* buf[k:k+len(pat)] == pat, k a 0-based index
MatchesAt(buf, pat, k) ==
    /\ k >= 0
    /\ k + Len(pat) <= Len(buf)
    /\ \A t \in 1..Len(pat) : buf[k + t] = pat[t]

\* bytes.find(pat, start): lowest 0-based index >= start, or -1
Find(buf, pat, start) ==
    LET hits == { k \in start..(Len(buf) - Len(pat)) : MatchesAt(buf, pat, k) }
    IN  IF hits = {} THEN -1 ELSE MinOf(hits)

\* a slice bound as Python normalises it: negative counts from the end, then clamped
NormIdx(n, k) ==
    IF k < 0 THEN (IF k + n < 0 THEN 0 ELSE k + n)
    ELSE (IF k > n THEN n ELSE k)

\* buf[a:b]
Slice(buf, a, b) ==
    LET lo == NormIdx(Len(buf), a)
        hi == NormIdx(Len(buf), b)
    IN  IF hi <= lo THEN << >> ELSE SubSeq(buf, lo + 1, hi)

\* buf[a:]
SliceFrom(buf, a) == Slice(buf, a, Len(buf))

\* buf[:b]
SliceTo(buf, b) == Slice(buf, 0, b)

\* bytearray slice assignment buf[a:b] = S (the slice is clamped to the buffer,
\* an empty or inverted slice inserts at its start; the buffer may grow)
SliceAssign(buf, a, b, S) ==
    LET n   == Len(buf)
        lo  == NormIdx(n, a)
        hi0 == NormIdx(n, b)
        hi  == IF hi0 < lo THEN lo ELSE hi0
    IN  SubSeq(buf, 1, lo) \o S \o SubSeq(buf, hi + 1, n)

\* bytes.splitlines() from 0-based index i on: lines end at \n, \r or \r\n
RECURSIVE SplitLinesFrom(_, _)
SplitLinesFrom(b, i) ==
    IF i >= Len(b) THEN << >>
    ELSE LET brk == { k \in i..(Len(b) - 1) : b[k + 1] \in {10, 13} }
             j   == IF brk = {} THEN Len(b) ELSE MinOf(brk)
             nxt == IF j >= Len(b) THEN j
                    ELSE IF b[j + 1] = 13 /\ j + 1 < Len(b) /\ b[j + 2] = 10 THEN j + 2
                    ELSE j + 1
         IN  << Slice(b, i, j) >> \o SplitLinesFrom(b, nxt)

SplitLines(b) == SplitLinesFrom(b, 0)

\* bytes.split(sep) for a one-byte separator, from 0-based index i on
RECURSIVE SplitFrom(_, _, _)
SplitFrom(b, sep, i) ==
    LET hits == { k \in i..(Len(b) - 1) : b[k + 1] = sep }
    IN  IF hits = {} THEN << Slice(b, i, Len(b)) >>
        ELSE << Slice(b, i, MinOf(hits)) >> \o SplitFrom(b, sep, MinOf(hits) + 1)

SplitOn(b, sep) == SplitFrom(b, sep, 0)

IsDigit(c) == c \in 48..57

IsSpace(c) == c \in {9, 10, 11, 12, 13, 32}

RECURSIVE StripLeft(_)
StripLeft(b) ==
    IF b # << >> /\ IsSpace(b[1]) THEN StripLeft(Tail(b)) ELSE b

RECURSIVE StripRight(_)
StripRight(b) ==
    IF b # << >> /\ IsSpace(b[Len(b)]) THEN StripRight(SubSeq(b, 1, Len(b) - 1)) ELSE b

\* value of decimal digits, underscores skipped
RECURSIVE DigitsValue(_)
DigitsValue(b) ==
    IF b = << >> THEN 0
    ELSE IF b[Len(b)] = 95 THEN DigitsValue(SubSeq(b, 1, Len(b) - 1))
    ELSE DigitsValue(SubSeq(b, 1, Len(b) - 1)) * 10 + (b[Len(b)] - 48)

\* digits, with single underscores between digits
IsDecimal(b) ==
    /\ b # << >>
    /\ IsDigit(b[1])
    /\ IsDigit(b[Len(b)])
    /\ \A k \in 1..Len(b) : IsDigit(b[k]) \/ b[k] = 95
    /\ \A k \in 1..(Len(b) - 1) : ~(b[k] = 95 /\ b[k + 1] = 95)

\* int(b): surrounding whitespace, an optional sign, decimal digits; ok = FALSE
\* stands for ValueError
ParseInt(b) ==
    LET t    == StripRight(StripLeft(b))
        neg  == t # << >> /\ t[1] = 45
        sgn  == t # << >> /\ t[1] \in {43, 45}
        body == IF sgn THEN Tail(t) ELSE t
    IN  IF IsDecimal(body)
        THEN [ok |-> TRUE, val |-> IF neg THEN 0 - DigitsValue(body) ELSE DigitsValue(body)]
        ELSE [ok |-> FALSE, val |-> 0]

RECURSIVE Digits(_)
Digits(n) == IF n < 10 THEN << 48 + n >> ELSE Digits(n \div 10) \o << 48 + (n % 10) >>

\* b"%i" % n and b"%d" % n
FmtInt(n) == IF n < 0 THEN << 45 >> \o Digits(0 - n) ELSE Digits(n)

\* b"%010i" % n
FmtInt010(n) ==
    LET d    == IF n < 0 THEN Digits(0 - n) ELSE Digits(n)
        sign == IF n < 0 THEN << 45 >> ELSE << >>
        pad  == 10 - Len(sign) - Len(d)
    IN  sign \o (IF pad > 0 THEN [k \in 1..pad |-> 48] ELSE << >>) \o d

\* b"\n".join(lines)
RECURSIVE JoinNl(_)
JoinNl(lines) ==
    IF lines = << >> THEN << >>
    ELSE IF Len(lines) = 1 THEN lines[1]
    ELSE lines[1] \o << 10 >> \o JoinNl(Tail(lines))

\* ------------------------------------------------------------------------
\* reusable-format/pdf/src/pdf.py
\* ------------------------------------------------------------------------
\* b"\nxref\n0 "
XrefMarker == << 10, 120, 114, 101, 102, 10, 48, 32 >>
\* b" \n\n"
XrefEnd == << 32, 10, 10 >>
\* b"\nstartxref\n"
StartxrefMarker == << 10, 115, 116, 97, 114, 116, 120, 114, 101, 102, 10 >>
\* the bytes literal b"\n%%%%EOF" of line 114: no % operator is applied to
\* it, so it is a line feed, four percent signs and EOF
EofMarker == << 10, 37, 37, 37, 37, 69, 79, 70 >>
\* b"xref"
XrefWord == << 120, 114, 101, 102 >>
\* b"0000000000 00001 f "
FreeEntry == << 48, 48, 48, 48, 48, 48, 48, 48, 48, 48, 32, 48, 48, 48, 48, 49, 32, 102, 32 >>
\* b" 00000 n "
InUseSuffix == << 32, 48, 48, 48, 48, 48, 32, 110, 32 >>

\* b"\n%i 0 obj\n" % i
ObjHeader(i) == << 10 >> \o FmtInt(i) \o << 32, 48, 32, 111, 98, 106, 10 >>

PdfRaise(msg) == [err |-> msg, out |-> << >>, objCount |-> -1, mismatch |-> FALSE]

\* the xref lines of lines 91-101 for objCount objects, offsets found in contents
XrefLines(contents, objCount) ==
    << XrefWord, << 48, 32 >> \o FmtInt(objCount), FreeEntry >>
      \o (IF objCount > 1
          THEN [i \in 1..(objCount - 1) |->
                  FmtInt010(Find(contents, ObjHeader(i), 0) + 1) \o InUseSuffix]
          ELSE << >>)

\* adjustPDF(contents): the bytes returned, or the exception raised
adjustPDF(contents) ==
    LET startXREF == Find(contents, XrefMarker, 0) + 1
        endXREF   == Find(contents, XrefEnd, startXREF) + 1
        origXref  == Slice(contents, startXREF, endXREF)
        lines     == SplitLines(origXref)
    IN  IF Len(lines) < 2 THEN PdfRaise("IndexError")
        ELSE IF Len(SplitOn(lines[2], 32)) < 2 THEN PdfRaise("IndexError")
        ELSE IF ~ParseInt(SplitOn(lines[2], 32)[2]).ok THEN PdfRaise("ValueError")
        ELSE LET objCount == ParseInt(SplitOn(lines[2], 32)[2]).val
                 xref     == JoinNl(XrefLines(contents, objCount))
                 c2       == SliceTo(contents, startXREF) \o xref \o SliceFrom(contents, endXREF)
                 startStartXref == Find(c2, StartxrefMarker, endXREF) + Len(StartxrefMarker)
                 endStartXref   == Find(c2, EofMarker, startStartXref)
             IN  [err |-> "",
                  out |-> SliceTo(c2, startStartXref) \o FmtInt(startXREF)
                            \o SliceFrom(c2, endStartXref),
                  objCount |-> objCount,
                  mismatch |-> (Len(xref) # Len(origXref))]

\* ------------------------------------------------------------------------
\* overlay_cpc_into_tbs.py
\* ------------------------------------------------------------------------
\* OID = 06 07 2A 03 04 05 06 07 08
OID == << 6, 7, 42, 3, 4, 5, 6, 7, 8 >>

FpRaise(msg) == [err |-> msg, payload_start |-> -1, L |-> -1]

\* find_payload with the two length bytes of the long form skipped short by one
find_payload_skip3(buf) ==
    LET i == Find(buf, OID, 0)
        j == i + Len(OID)
    IN  IF i < 0 THEN FpRaise("OID 1.2.3.4.5.6.7.8 not found")
        ELSE IF j >= Len(buf) THEN FpRaise("IndexError")
        ELSE IF buf[j + 1] # 4 THEN FpRaise("Expected OCTET STRING after OID")
        ELSE IF j + 1 >= Len(buf) THEN FpRaise("IndexError")
        ELSE LET l1 == buf[j + 2]
             IN  IF l1 >= 128
                 THEN IF l1 - 128 = 2
                      THEN IF j + 3 >= Len(buf) THEN FpRaise("IndexError")
                           ELSE [err |-> "",
                                 payload_start |-> j + 3,
                                 L |-> buf[j + 3] * 256 + buf[j + 4]]
                      ELSE FpRaise("Unexpected length form")
                 ELSE [err |-> "", payload_start |-> j + 2, L |-> l1]

\* find_payload without the test of the tag byte
find_payload_notag(buf) ==
    LET i == Find(buf, OID, 0)
        j == i + Len(OID)
    IN  IF i < 0 THEN FpRaise("OID 1.2.3.4.5.6.7.8 not found")
        ELSE IF j + 1 >= Len(buf) THEN FpRaise("IndexError")
        ELSE LET l1 == buf[j + 2]
             IN  IF l1 >= 128
                 THEN IF l1 - 128 = 2
                      THEN IF j + 3 >= Len(buf) THEN FpRaise("IndexError")
                           ELSE [err |-> "",
                                 payload_start |-> j + 4,
                                 L |-> buf[j + 3] * 256 + buf[j + 4]]
                      ELSE FpRaise("Unexpected length form")
                 ELSE [err |-> "", payload_start |-> j + 2, L |-> l1]

\* find_payload(buf): the returned pair, or the exception raised (err # "")
find_payload(buf) ==
    LET i == Find(buf, OID, 0)
        j == i + Len(OID)
    IN  IF i < 0 THEN FpRaise("OID 1.2.3.4.5.6.7.8 not found")
        ELSE IF j >= Len(buf) THEN FpRaise("IndexError")
        ELSE IF buf[j + 1] # 4 THEN FpRaise("Expected OCTET STRING after OID")
        ELSE IF j + 1 >= Len(buf) THEN FpRaise("IndexError")
        ELSE LET l1 == buf[j + 2]
             IN  IF l1 >= 128
                 THEN IF l1 - 128 = 2
                      THEN IF j + 3 >= Len(buf) THEN FpRaise("IndexError")
                           ELSE [err |-> "",
                                 payload_start |-> j + 4,
                                 L |-> buf[j + 3] * 256 + buf[j + 4]]
                      ELSE FpRaise("Unexpected length form")
                 ELSE [err |-> "", payload_start |-> j + 2, L |-> l1]

OvRaise(msg, fp) ==
    [err |-> msg, out |-> << >>,
     payload_start |-> fp.payload_start, payload_len |-> fp.L]

\* overlay with the size test off by one (>= for >)
overlay_ge(tbs, prefix_len, S) ==
    LET fp      == find_payload(tbs)
        max_len == fp.L - prefix_len
        off     == fp.payload_start + prefix_len
    IN  IF fp.err # "" THEN OvRaise(fp.err, fp)
        ELSE IF Len(S) >= max_len THEN OvRaise("Linking block too large", fp)
        ELSE [err |-> "",
              out |-> SliceAssign(tbs, off, off + Len(S), S),
              payload_start |-> fp.payload_start, payload_len |-> fp.L]

\* overlay writing the block at prefix_len counted from the start of the file
overlay_abs(tbs, prefix_len, S) ==
    LET fp      == find_payload(tbs)
        max_len == fp.L - prefix_len
        off     == prefix_len
    IN  IF fp.err # "" THEN OvRaise(fp.err, fp)
        ELSE IF Len(S) > max_len THEN OvRaise("Linking block too large", fp)
        ELSE [err |-> "",
              out |-> SliceAssign(tbs, off, off + Len(S), S),
              payload_start |-> fp.payload_start, payload_len |-> fp.L]

\* overlay(tbs_path, prefix_len, s_path, out_path) on the contents of the files:
\* what is written to out_path, or the exception raised before the write
overlay(tbs, prefix_len, S) ==
    LET fp      == find_payload(tbs)
        max_len == fp.L - prefix_len
        off     == fp.payload_start + prefix_len
    IN  IF fp.err # "" THEN OvRaise(fp.err, fp)
        ELSE IF Len(S) > max_len THEN OvRaise("Linking block too large", fp)
        ELSE [err |-> "",
              out |-> SliceAssign(tbs, off, off + Len(S), S),
              payload_start |-> fp.payload_start, payload_len |-> fp.L]

\* ------------------------------------------------------------------------
\* build_tbs_templates.py
\* ------------------------------------------------------------------------
reserved_length == 16384

\* DER definite length octets, as core.Asn1Value.dump() emits them
DerLength(n) ==
    IF n < 128 THEN << n >>
    ELSE IF n < 256 THEN << 129, n >>
    ELSE IF n < 65536 THEN << 130, n \div 256, n % 256 >>
    ELSE << 131, n \div 65536, (n \div 256) % 256, n % 256 >>

\* one DER TLV
Tlv(tag, content) == << tag >> \o DerLength(Len(content)) \o content

\* b'PrefixA: Demo benign\n'
PrefixA == << 80, 114, 101, 102, 105, 120, 65, 58, 32, 68, 101, 109, 111, 32,
              98, 101, 110, 105, 103, 110, 10 >>

\* b'PrefixB: Demo malicious\n'
PrefixB == << 80, 114, 101, 102, 105, 120, 66, 58, 32, 68, 101, 109, 111, 32,
              109, 97, 108, 105, 99, 105, 111, 117, 115, 10 >>

\* make_tbs_with_prefix(prefix_bytes, out_path): the bytes of tbs.dump().
\* fields stands for the DER of signature, issuer, validity, subject and
\* subject_public_key_info, the same in both calls.
make_tbs_with_prefix(prefix_bytes, fields) ==
    LET payload == SliceAssign(Zeros(reserved_length), 0, Len(prefix_bytes), prefix_bytes)
        ext     == Tlv(48, OID \o Tlv(4, payload))
        exts    == Tlv(48, ext)
        version == Tlv(160, << 2, 1, 2 >>)
        serial  == << 2, 1, 1 >>
    IN  Tlv(48, version \o serial \o fields \o Tlv(163, exts))

\* prefix_len of the two overlay() calls of overlay_cpc_into_tbs.py
PrefixLenA == 21
PrefixLenB == 24

\* ------------------------------------------------------------------------
\* tools/verify_all.py
\* ------------------------------------------------------------------------
\* A file is named by its content: 0 and 1 are two different files with the
\* same MD5 (a collision pair), every other content has a digest of its own;
\* -1 is a path with no file.
NoFile == -1

\* h(p, "md5"): the digest, as a digest number
Md5Of(c) == IF c \in {0, 1} THEN 0 ELSE c

\* h(p, "sha256"): no two contents of the model share a SHA-256
Sha256Of(c) == << "sha256", c >>

VmRaise == [err |-> TRUE, labels_str |-> TRUE, md5_equal |-> FALSE, sha256_diff |-> FALSE]

\* verify_manifest(mpath): the row returned, or err when it raises
\* (unreadable or malformed manifest, fewer than two artifacts, missing artifact)
verify_manifest(m) ==
    IF ~m.json_ok THEN VmRaise
    ELSE IF Len(m.arts) < 2 THEN VmRaise
    ELSE IF m.arts[1] = NoFile \/ m.arts[2] = NoFile THEN VmRaise
    ELSE [err |-> FALSE,
          labels_str |-> m.labels_str,
          md5_equal |-> (Md5Of(m.arts[1]) = Md5Of(m.arts[2])),
          sha256_diff |-> (Sha256Of(m.arts[1]) # Sha256Of(m.arts[2]))]

\* ------------------------------------------------------------------------
\* verify_reusable.py (first_diff is the same function in verify_identical.py)
\* ------------------------------------------------------------------------
\* None, and the value of a result variable before the call
FdNone == << >>

FdUnset == << -2, -2, -2 >>

\* the for loop of first_diff from index i on: the first i < n with a[i] != b[i]
RECURSIVE FirstDiffFrom(_, _, _, _)
FirstDiffFrom(a, b, i, n) ==
    IF i >= n THEN (IF Len(a) = Len(b) THEN FdNone ELSE << n, -1, -1 >>)
    ELSE IF a[i + 1] # b[i + 1] THEN << i, a[i + 1], b[i + 1] >>
    ELSE FirstDiffFrom(a, b, i + 1, n)

first_diff(a, b) ==
    FirstDiffFrom(a, b, 0, IF Len(a) < Len(b) THEN Len(a) ELSE Len(b))

\* the while loop of common_suffix_start: the value of i when it ends
RECURSIVE SuffixLoop(_, _, _, _)
SuffixLoop(a, b, i, m) ==
    IF i <= m /\ a[Len(a) - i + 1] = b[Len(b) - i + 1]
    THEN SuffixLoop(a, b, i + 1, m)
    ELSE i

\* common_suffix_start without the i -= 1 after the loop
common_suffix_start_noback(a, b) ==
    Len(a) - SuffixLoop(a, b, 1, IF Len(a) < Len(b) THEN Len(a) ELSE Len(b))

common_suffix_start(a, b) ==
    Len(a) - (SuffixLoop(a, b, 1, IF Len(a) < Len(b) THEN Len(a) ELSE Len(b)) - 1)

\* None as jpeg_find_second_com returns it, and the result before the return
JpNone == << >>

JpUnset == << -2 >>

\* line 82: the data is at least 4 bytes and starts with FF D8
JpegHasSoi(data) == Len(data) >= 4 /\ data[1] = 255 /\ data[2] = 216

\* the fill loop stopping after one byte
SkipFill_one(data, j) == j + 1

\* lines 92-93: the first j >= i that is past the end or not at a 0xFF
RECURSIVE SkipFill(_, _)
SkipFill(data, j) ==
    IF j < Len(data) /\ data[j + 1] = 255 THEN SkipFill(data, j + 1) ELSE j

\* line 99: markers without a length field
JpegStandalone(marker) ==
    marker \in {216, 217, 1} \/ (208 <= marker /\ marker <= 215)

JpCont(i, com_seen) == [done |-> FALSE, res |-> JpUnset, i |-> i, com_seen |-> com_seen]

JpDone(res, i, com_seen) == [done |-> TRUE, res |-> res, i |-> i, com_seen |-> com_seen]

\* the 0-based indices at which one iteration of the loop reads data: data[i]
\* (line 88); in the fill loop data[j] for every j it tests with j < len
\* (line 92); the marker (line 96); the two length bytes unless the marker is
\* standalone or line 101 breaks (line 103)
JpegReads(data, i) ==
    IF data[i + 1] # 255 THEN {i}
    ELSE LET j == SkipFill(data, i)
         IN  IF j >= Len(data) THEN i..(j - 1)
             ELSE (i..j)
                    \cup (IF JpegStandalone(data[j + 1]) \/ j + 2 >= Len(data)
                          THEN {}
                          ELSE {j + 1, j + 2})

\* the loop body jumping by L from the 0xFF of the marker (i = j - 1 + L)
JpegIter_FromMarker(data, i, com_seen) ==
    IF data[i + 1] # 255 THEN JpCont(i + 1, com_seen)
    ELSE LET j == SkipFill(data, i)
         IN  IF j >= Len(data) THEN JpDone(JpNone, i, com_seen)
             ELSE LET marker == data[j + 1]
                      i2     == j + 1
                  IN  IF JpegStandalone(marker) THEN JpCont(i2, com_seen)
                      ELSE IF i2 + 1 >= Len(data) THEN JpDone(JpNone, i2, com_seen)
                      ELSE LET L == data[i2 + 1] * 256 + data[i2 + 2]
                           IN  IF marker = 254 /\ com_seen + 1 = 2
                               THEN JpDone(<< j - 1, i2, L, (j - 1) + L >>,
                                           i2, com_seen + 1)
                               ELSE JpCont((j - 1) + L,
                                           IF marker = 254 THEN com_seen + 1
                                           ELSE com_seen)

\* one iteration of the while loop (lines 87-110), entered with i + 3 <= len(data)
JpegIter(data, i, com_seen) ==
    IF data[i + 1] # 255 THEN JpCont(i + 1, com_seen)
    ELSE LET j == SkipFill(data, i)
         IN  IF j >= Len(data) THEN JpDone(JpNone, i, com_seen)
             ELSE LET marker == data[j + 1]
                      i2     == j + 1
                  IN  IF JpegStandalone(marker) THEN JpCont(i2, com_seen)
                      ELSE IF i2 + 1 >= Len(data) THEN JpDone(JpNone, i2, com_seen)
                      ELSE LET L == data[i2 + 1] * 256 + data[i2 + 2]
                           IN  IF marker = 254
                               THEN IF com_seen + 1 = 2
                                    THEN JpDone(<< j - 1, i2, L, (j - 1) + L >>,
                                                i2, com_seen + 1)
                                    ELSE JpCont(i2 + L, com_seen + 1)
                               ELSE JpCont(i2 + L, com_seen)

\* the while loop from the state (i, com_seen) to the return
RECURSIVE JpegLoop(_, _, _)
JpegLoop(data, i, com_seen) ==
    IF i + 3 > Len(data) THEN JpNone
    ELSE LET r == JpegIter(data, i, com_seen)
         IN  IF r.done THEN r.res ELSE JpegLoop(data, r.i, r.com_seen)

jpeg_find_second_com(data) ==
    IF ~JpegHasSoi(data) THEN JpNone ELSE JpegLoop(data, 2, 0)

\* flg & mask for a one-bit mask
FlagSet(flg, mask) == (flg \div mask) % 2 = 1

\* lines 140-144: i behind the FEXTRA field, -1 when struct.unpack raises
GzAfterExtra(b, flg, i) ==
    IF ~FlagSet(flg, 4) THEN i
    ELSE IF Len(Slice(b, i, i + 2)) # 2 THEN -1
    ELSE i + 2 + (b[i + 1] + 256 * b[i + 2])

\* lines 145-152: i behind a zero-terminated field (FNAME, FCOMMENT)
GzAfterZ(b, flg, mask, i) ==
    IF ~FlagSet(flg, mask) THEN i ELSE Find(b, << 0 >>, i) + 1

\* gzip_parse_header(b): the header length and info["valid"], or the exception
gzip_parse_header(b) ==
    IF ~(Len(b) >= 10 /\ b[1] = 31 /\ b[2] = 139)
    THEN [err |-> "", off |-> 0, valid |-> FALSE]
    ELSE LET flg == b[4]
             i1  == GzAfterExtra(b, flg, 10)
         IN  IF i1 < 0 THEN [err |-> "struct.error", off |-> -1, valid |-> FALSE]
             ELSE LET i2 == GzAfterZ(b, flg, 8, i1)
                      i3 == GzAfterZ(b, flg, 16, i2)
                      i4 == IF FlagSet(flg, 2) THEN i3 + 2 ELSE i3
                  IN  [err |-> "", off |-> i4, valid |-> TRUE]

\* ------------------------------------------------------------------------
\* pad_to_block.py
\* ------------------------------------------------------------------------
\* the default of pad_file's block parameter, which main() never overrides
block == 64

\* pad_file without the two early returns
pad_file_always(data) ==
    [written |-> TRUE, data |-> data \o Zeros(block - (Len(data) % block))]

\* pad_file(path) on the contents of the file: whether write_bytes is
\* called, and the contents afterwards
pad_file(data) ==
    LET rem     == Len(data) % block
        pad_len == (block - rem) % block
    IN  IF rem = 0 THEN [written |-> FALSE, data |-> data]
        ELSE IF pad_len = 0 THEN [written |-> FALSE, data |-> data]
        ELSE [written |-> TRUE, data |-> data \o Zeros(pad_len)]

\* ------------------------------------------------------------------------
\* pdf_wrap.py: make_pdf, its literals as bytes (latin1)
\* ------------------------------------------------------------------------
\* b"%PDF-1.7\n%\xE2\xE3\xCF\xD3\n"
MkHeader ==
    << 37, 80, 68, 70, 45, 49, 46, 55, 10, 37, 226, 227, 207, 211, 10 >>

\* obj1
MkObj1 ==
    << 49, 32, 48, 32, 111, 98, 106, 10, 60, 60, 32, 47, 84, 121, 112, 101,
       32, 47, 67, 97, 116, 97, 108, 111, 103, 32, 47, 80, 97, 103, 101, 115,
       32, 50, 32, 48, 32, 82, 32, 62, 62, 10, 101, 110, 100, 111, 98, 106,
       10 >>

\* obj2
MkObj2 ==
    << 50, 32, 48, 32, 111, 98, 106, 10, 60, 60, 32, 47, 84, 121, 112, 101,
       32, 47, 80, 97, 103, 101, 115, 32, 47, 75, 105, 100, 115, 32, 91, 51,
       32, 48, 32, 82, 93, 32, 47, 67, 111, 117, 110, 116, 32, 49, 32, 62,
       62, 10, 101, 110, 100, 111, 98, 106, 10 >>

\* obj3
MkObj3 ==
    << 51, 32, 48, 32, 111, 98, 106, 10, 60, 60, 32, 47, 84, 121, 112, 101,
       32, 47, 80, 97, 103, 101, 32, 47, 80, 97, 114, 101, 110, 116, 32, 50,
       32, 48, 32, 82, 32, 47, 82, 101, 115, 111, 117, 114, 99, 101, 115, 32,
       60, 60, 32, 47, 70, 111, 110, 116, 32, 60, 60, 32, 47, 70, 49, 32, 55,
       32, 48, 32, 82, 32, 62, 62, 32, 62, 62, 32, 47, 77, 101, 100, 105, 97,
       66, 111, 120, 32, 91, 48, 32, 48, 32, 54, 49, 50, 32, 55, 57, 50, 93,
       10, 47, 67, 111, 110, 116, 101, 110, 116, 115, 32, 56, 32, 48, 32, 82,
       32, 47, 83, 116, 114, 117, 99, 116, 80, 97, 114, 101, 110, 116, 115,
       32, 48, 32, 62, 62, 10, 101, 110, 100, 111, 98, 106, 10 >>

\* obj7
MkObj7 ==
    << 55, 32, 48, 32, 111, 98, 106, 10, 60, 60, 32, 47, 84, 121, 112, 101,
       32, 47, 70, 111, 110, 116, 32, 47, 83, 117, 98, 116, 121, 112, 101,
       32, 47, 84, 121, 112, 101, 49, 32, 47, 66, 97, 115, 101, 70, 111, 110,
       116, 32, 47, 72, 101, 108, 118, 101, 116, 105, 99, 97, 32, 47, 69,
       110, 99, 111, 100, 105, 110, 103, 32, 47, 87, 105, 110, 65, 110, 115,
       105, 69, 110, 99, 111, 100, 105, 110, 103, 32, 62, 62, 10, 101, 110,
       100, 111, 98, 106, 10 >>

\* obj6
MkObj6 ==
    << 54, 32, 48, 32, 111, 98, 106, 10, 60, 60, 32, 47, 78, 97, 109, 101,
       115, 32, 91, 40, 69, 109, 98, 101, 100, 100, 101, 100, 41, 32, 53, 32,
       48, 32, 82, 93, 32, 62, 62, 10, 101, 110, 100, 111, 98, 106, 10 >>

\* " >>\nstream\n", in obj8 and in stream_header
MkStreamWord ==
    << 32, 62, 62, 10, 115, 116, 114, 101, 97, 109, 10 >>

\* stream_footer "\nendstream\nendobj\n", also the end of obj8
MkEndStream ==
    << 10, 101, 110, 100, 115, 116, 114, 101, 97, 109, 10, 101, 110, 100,
       111, 98, 106, 10 >>

\* obj8 (lines 56-63): "8 0 obj\n<< /Length " len(content_stream) " >>\nstream\n"
\* content_stream "\nendstream\nendobj\n", where content_stream is
\* "BT /F1 24 Tf 72 720 Td (" title ") Tj ET\n"
MkObj8(title) ==
    LET content_stream ==
            << 66, 84, 32, 47, 70, 49, 32, 50, 52, 32, 84, 102, 32, 55, 50, 32, 55,
               50, 48, 32, 84, 100, 32, 40 >>
              \o title \o << 41, 32, 84, 106, 32, 69, 84, 10 >>
    IN  << 56, 32, 48, 32, 111, 98, 106, 10, 60, 60, 32, 47, 76, 101, 110, 103,
           116, 104, 32 >>
          \o FmtInt(Len(content_stream)) \o MkStreamWord
          \o content_stream \o MkEndStream

\* stream_header, payload_bytes, stream_footer (lines 68-75); stream_header is
\* "4 0 obj\n<< /Type /EmbeddedFile /Length " payload_len " >>\nstream\n"
MkObj4(payload) ==
    << 52, 32, 48, 32, 111, 98, 106, 10, 60, 60, 32, 47, 84, 121, 112, 101,
       32, 47, 69, 109, 98, 101, 100, 100, 101, 100, 70, 105, 108, 101, 32,
       47, 76, 101, 110, 103, 116, 104, 32 >>
      \o FmtInt(Len(payload)) \o MkStreamWord \o payload \o MkEndStream

\* objs, in the order of the append calls: 1, 2, 3, 7, 8, 4, 5, 6; obj5 is
\* "5 0 obj\n<< /Type /Filespec /F (" title ") /EF << /F 4 0 R >> >>\nendobj\n"
MkObjs(payload, title) ==
    << MkObj1, MkObj2, MkObj3, MkObj7, MkObj8(title), MkObj4(payload),
       << 53, 32, 48, 32, 111, 98, 106, 10, 60, 60, 32, 47, 84, 121, 112, 101,
          32, 47, 70, 105, 108, 101, 115, 112, 101, 99, 32, 47, 70, 32, 40 >>
         \o title
         \o << 41, 32, 47, 69, 70, 32, 60, 60, 32, 47, 70, 32, 52, 32, 48, 32, 82,
            32, 62, 62, 32, 62, 62, 10, 101, 110, 100, 111, 98, 106, 10 >>,
       MkObj6 >>

\* buf after the header and the first k items of objs (lines 92-103)
RECURSIVE MkBuf(_, _)
MkBuf(objs, k) == IF k = 0 THEN MkHeader ELSE MkBuf(objs, k - 1) \o objs[k]

\* lines 109-110: one entry "%010d 00000 n \n" per offset, in the order of offsets
RECURSIVE MkEntries(_, _)
MkEntries(offsets, k) ==
    IF k = 0 THEN << >>
    ELSE MkEntries(offsets, k - 1) \o FmtInt010(offsets[k])
           \o << 32, 48, 48, 48, 48, 48, 32, 110, 32, 10 >>

\* make_pdf(payload_bytes, visible_title): the bytes returned. offsets (line
\* 96) holds the length of buf before each item is appended; behind the body
\* come "xref\n0 %d\n", "0000000000 65535 f \n", the entries, and the trailer
\* "trailer\n<< /Size N /Root 1 0 R /Names 6 0 R >>\nstartxref\nX\n%%EOF\n"
make_pdf(payload, title) ==
    LET objs        == MkObjs(payload, title)
        offsets     == [k \in 1..Len(objs) |-> Len(MkBuf(objs, k - 1))]
        body        == MkBuf(objs, Len(objs))
        xref_offset == Len(body)
    IN  body
          \o << 120, 114, 101, 102, 10, 48, 32 >> \o FmtInt(Len(offsets) + 1) \o << 10 >>
          \o << 48, 48, 48, 48, 48, 48, 48, 48, 48, 48, 32, 54, 53, 53, 51, 53, 32,
             102, 32, 10 >>
          \o MkEntries(offsets, Len(offsets))
          \o << 116, 114, 97, 105, 108, 101, 114, 10, 60, 60, 32, 47, 83, 105, 122,
             101, 32 >>
          \o FmtInt(Len(offsets) + 1)
          \o << 32, 47, 82, 111, 111, 116, 32, 49, 32, 48, 32, 82, 32, 47, 78, 97,
             109, 101, 115, 32, 54, 32, 48, 32, 82, 32, 62, 62, 10, 115, 116, 97,
             114, 116, 120, 114, 101, 102, 10 >>
          \o FmtInt(xref_offset)
          \o << 10, 37, 37, 69, 79, 70, 10 >>

\* ------------------------------------------------------------------------
\* Specification SpecOverlay: one overlay() call on small files
\* ------------------------------------------------------------------------
\* bytes in front of the extension
OvHeaders == { << >>, << 48, 6, 7 >>, OID \o << 5 >> }

\* what follows the OID: a tag byte (or the end of the file)
OvTags == { << 4 >>, << 5 >> }

\* length fields: short form, long form with two bytes, and the forms
\* find_payload does not decode or that end early
OvLenFields ==
    { << l >> : l \in 0..MaxCap }
      \cup { << 130, b1, b2 >> : b1 \in 0..1, b2 \in 0..MaxCap }
      \cup { << 129, MaxCap >>, << 128 >>, << 130 >>, << 130, 0 >>, << >> }

\* the reserved content as make_tbs_with_prefix lays it out: a prefix
\* byte 'P' then zero padding; n may differ from the declared length
OvContent(n) == [i \in 1..n |-> IF i = 1 THEN 80 ELSE 0]

OvTrailers == { << >>, << 255 >> }

\* a capacity that holds a copy of the OID, its tag and a length byte
OvRoomyCap == Len(OID) + 2 + MaxCap

OvTemplates ==
    { h \o OID \o t \o lf \o OvContent(n) \o tr :
        h \in OvHeaders, t \in OvTags, lf \in OvLenFields,
        n \in 0..MaxCap, tr \in OvTrailers }
      \cup { << 48, 6, 7, 42 >>, OID, << 48 >> \o OID }
      \cup { h \o OID \o << 4, OvRoomyCap >> \o OvContent(OvRoomyCap) \o tr :
                h \in OvHeaders, tr \in OvTrailers }

OvBlockBytes == { 170, 6 }

\* short blocks, and blocks that carry a copy of the extension's OID
OvBlocks ==
    UNION { [1..n -> OvBlockBytes] : n \in 0..MaxS }
      \cup { OID \o << 4, 1 >>, << 170 >> \o OID \o << 4 >> }

\* the certificate pipeline before it has run
CaIdle ==
    /\ ca_fields = << >>
    /\ ca_SA = << >>
    /\ ca_SB = << >>
    /\ ca_tbsA = << >>
    /\ ca_tbsB = << >>
    /\ ca_finalA = << >>
    /\ ca_finalB = << >>
    /\ ca_pc = "idle"
    /\ ca_offA = -1
    /\ ca_offB = -1

\* no overlay() call of SpecOverlay pending
OvIdle ==
    /\ ov_tbs = << >>
    /\ ov_S = << >>
    /\ ov_prefix_len = 0
    /\ ov_out_exists = FALSE
    /\ ov_out = << >>
    /\ ov_pc = "idle"
    /\ ov_err = ""
    /\ ov_found = << -1, -1 >>

\* verify_all not running
VaIdle ==
    /\ va_manifests = << >>
    /\ va_i = 0
    /\ va_results = << >>
    /\ va_pc = "idle"
    /\ va_exit = -1

\* pdf.py not running
PdfIdle ==
    /\ pdf_in = << >>
    /\ pdf_out = << >>
    /\ pdf_err = ""
    /\ pdf_mismatch = FALSE
    /\ pdf_objCount = -1
    /\ pdf_hacked_exists = FALSE
    /\ pdf_hacked = << >>
    /\ pdf_again = [err |-> "", out |-> << >>]
    /\ pdf_pc = "idle"

\* neither analyzer running
AnIdle ==
    /\ an_tool = "none"
    /\ an_fmt = "none"
    /\ an_exists = FALSE
    /\ an_c1 = << >>
    /\ an_c2 = << >>
    /\ an_fd = FdUnset
    /\ an_suffix = -1
    /\ an_written = {}
    /\ an_err = ""
    /\ an_pc = "idle"

\* jpeg_find_second_com not called
JpIdle ==
    /\ jp_data = << >>
    /\ jp_i = 0
    /\ jp_com_seen = 0
    /\ jp_res = JpUnset
    /\ jp_pc = "idle"

\* gzip_parse_header not called
GzIdle ==
    /\ gz_b = << >>
    /\ gz_res = [err |-> "", off |-> -1, valid |-> FALSE]
    /\ gz_pc = "idle"

\* pad_file not called
PadIdle ==
    /\ pad_in = << >>
    /\ pad_data = << >>
    /\ pad_writes = 0
    /\ pad_first = << >>
    /\ pad_pc = "idle"

\* make_pdf not called
MkIdle ==
    /\ mk_payload = << >>
    /\ mk_title = << >>
    /\ mk_out = << >>
    /\ mk_pc = "idle"
    /\ mk_payload2 = << >>
    /\ mk_title2 = << >>
    /\ mk_out2 = << >>

InitOverlay ==
    /\ AnIdle /\ JpIdle /\ GzIdle /\ PadIdle /\ MkIdle
    /\ CaIdle
    /\ VaIdle
    /\ PdfIdle
    /\ ov_tbs \in OvTemplates
    /\ ov_S \in OvBlocks
    /\ ov_prefix_len \in 0..MaxCap
    /\ ov_out_exists \in BOOLEAN
    /\ ov_out = IF ov_out_exists THEN << 1 >> ELSE << >>
    /\ ov_pc = "call"
    /\ ov_err = ""
    /\ ov_found = << -1, -1 >>

\* overlay() opening (and so truncating) the output file before find_payload
Overlay_OpenFirst ==
    /\ ov_pc = "call"
    /\ LET r == overlay(ov_tbs, ov_prefix_len, ov_S)
       IN  /\ ov_pc' = IF r.err = "" THEN "returned" ELSE "raised"
           /\ ov_err' = r.err
           /\ ov_found' = << r.payload_start, r.payload_len >>
           /\ ov_out_exists' = TRUE
           /\ ov_out' = r.out
    /\ UNCHANGED << ov_tbs, ov_S, ov_prefix_len >>
    /\ UNCHANGED << caVars, vaVars, pdfVars >>
    /\ UNCHANGED << anVars, jpVars, gzVars, padVars, mkVars >>

\* overlay(tbs_path, prefix_len, s_path, out_path), lines 27-39
Overlay ==
    /\ ov_pc = "call"
    /\ LET r == overlay(ov_tbs, ov_prefix_len, ov_S)
       IN  /\ ov_pc' = IF r.err = "" THEN "returned" ELSE "raised"
           /\ ov_err' = r.err
           /\ ov_found' = << r.payload_start, r.payload_len >>
           /\ ov_out_exists' = (ov_out_exists \/ r.err = "")
           /\ ov_out' = IF r.err = "" THEN r.out ELSE ov_out
    /\ UNCHANGED << ov_tbs, ov_S, ov_prefix_len >>
    /\ UNCHANGED << caVars, vaVars, pdfVars >>
    /\ UNCHANGED << anVars, jpVars, gzVars, padVars, mkVars >>

NextOverlay == Overlay

SpecOverlay == InitOverlay /\ [][NextOverlay]_vars

\* ------------------------------------------------------------------------
\* Specification SpecCA: the certificate pipeline
\*   python build_tbs_templates.py ; python overlay_cpc_into_tbs.py
\* ------------------------------------------------------------------------
\* stand-ins for the DER of the fields built from demo_pub.pem
CaFieldSets == { << 48, 0 >>, << 48, 2, 5, 0 >>, << 48, 3, 6, 1, 42 >> }

CaBlockBytes == { 170, 187 }

CaBlocks == UNION { [1..n -> CaBlockBytes] : n \in 1..MaxBlock }

InitCA ==
    /\ AnIdle /\ JpIdle /\ GzIdle /\ PadIdle /\ MkIdle
    /\ OvIdle
    /\ VaIdle
    /\ PdfIdle
    /\ ca_fields \in CaFieldSets
    /\ ca_SA \in CaBlocks
    /\ ca_SB \in CaBlocks
    /\ ca_tbsA = << >>
    /\ ca_tbsB = << >>
    /\ ca_finalA = << >>
    /\ ca_finalB = << >>
    /\ ca_pc = "build_A"
    /\ ca_offA = -1
    /\ ca_offB = -1

\* build_tbs_templates.py line 56
BuildA ==
    /\ ca_pc = "build_A"
    /\ ca_tbsA' = make_tbs_with_prefix(PrefixA, ca_fields)
    /\ ca_pc' = "build_B"
    /\ UNCHANGED << ca_fields, ca_SA, ca_SB, ca_tbsB, ca_finalA, ca_finalB, ca_offA, ca_offB >>
    /\ UNCHANGED << ovVars, vaVars, pdfVars >>
    /\ UNCHANGED << anVars, jpVars, gzVars, padVars, mkVars >>

\* build_tbs_templates.py line 57
BuildB ==
    /\ ca_pc = "build_B"
    /\ ca_tbsB' = make_tbs_with_prefix(PrefixB, ca_fields)
    /\ ca_pc' = "overlay_A"
    /\ UNCHANGED << ca_fields, ca_SA, ca_SB, ca_tbsA, ca_finalA, ca_finalB, ca_offA, ca_offB >>
    /\ UNCHANGED << ovVars, vaVars, pdfVars >>
    /\ UNCHANGED << anVars, jpVars, gzVars, padVars, mkVars >>

\* overlay_cpc_into_tbs.py line 45
OverlayA ==
    /\ ca_pc = "overlay_A"
    /\ LET r == overlay(ca_tbsA, PrefixLenA, ca_SA)
       IN  /\ ca_pc' = IF r.err = "" THEN "overlay_B" ELSE "raised"
           /\ ca_finalA' = IF r.err = "" THEN r.out ELSE ca_finalA
           /\ ca_offA' = IF r.err = "" THEN r.payload_start + PrefixLenA ELSE ca_offA
    /\ UNCHANGED << ca_fields, ca_SA, ca_SB, ca_tbsA, ca_tbsB, ca_finalB, ca_offB >>
    /\ UNCHANGED << ovVars, vaVars, pdfVars >>
    /\ UNCHANGED << anVars, jpVars, gzVars, padVars, mkVars >>

\* overlay_cpc_into_tbs.py line 46
OverlayB ==
    /\ ca_pc = "overlay_B"
    /\ LET r == overlay(ca_tbsB, PrefixLenB, ca_SB)
       IN  /\ ca_pc' = IF r.err = "" THEN "done" ELSE "raised"
           /\ ca_finalB' = IF r.err = "" THEN r.out ELSE ca_finalB
           /\ ca_offB' = IF r.err = "" THEN r.payload_start + PrefixLenB ELSE ca_offB
    /\ UNCHANGED << ca_fields, ca_SA, ca_SB, ca_tbsA, ca_tbsB, ca_finalA, ca_offA >>
    /\ UNCHANGED << ovVars, vaVars, pdfVars >>
    /\ UNCHANGED << anVars, jpVars, gzVars, padVars, mkVars >>

NextCA == BuildA \/ BuildB \/ OverlayA \/ OverlayB

SpecCA == InitCA /\ [][NextCA]_vars

\* ------------------------------------------------------------------------
\* Specification SpecVerify: python verify_all.py <manifest>...
\* ------------------------------------------------------------------------
VaContents == { NoFile, 0, 1, 2 }

VaArtLists == UNION { [1..n -> VaContents] : n \in 0..MaxArts }

\* what a manifest path holds: json_ok is FALSE for a missing file or one that
\* is no JSON object; labels_str tells whether "technique" and "language"
\* are strings
VaManifests ==
    { [json_ok |-> FALSE, labels_str |-> TRUE, arts |-> << >>] }
      \cup { [json_ok |-> TRUE, labels_str |-> ls, arts |-> a] :
                ls \in BOOLEAN, a \in VaArtLists }

InitVerify ==
    /\ AnIdle /\ JpIdle /\ GzIdle /\ PadIdle /\ MkIdle
    /\ OvIdle
    /\ CaIdle
    /\ PdfIdle
    /\ va_manifests \in UNION { [1..n -> VaManifests] : n \in 1..MaxManifests }
    /\ va_i = 0
    /\ va_results = << >>
    /\ va_pc = "loop"
    /\ va_exit = -1

\* main(), lines 72-88: one pass of the loop over manifest_paths
VaVerify ==
    /\ va_pc = "loop"
    /\ va_i < Len(va_manifests)
    /\ LET res == verify_manifest(va_manifests[va_i + 1])
       IN  va_results' = Append(va_results, res)
    /\ va_i' = va_i + 1
    /\ UNCHANGED << va_manifests, va_pc, va_exit >>
    /\ UNCHANGED << ovVars, caVars, pdfVars >>
    /\ UNCHANGED << anVars, jpVars, gzVars, padVars, mkVars >>

\* main(), lines 90-131, and sys.exit(main()): the table is printed and the
\* process exits; len() of a label that is no string is an uncaught TypeError
\* (exit status 1)
VaReport ==
    /\ va_pc = "loop"
    /\ va_i = Len(va_manifests)
    /\ va_exit' = IF va_results = << >> THEN 2
                  ELSE IF \E k \in 1..Len(va_results) : ~va_results[k].labels_str THEN 1
                  ELSE 0
    /\ va_pc' = "exited"
    /\ UNCHANGED << va_manifests, va_i, va_results >>
    /\ UNCHANGED << ovVars, caVars, pdfVars >>
    /\ UNCHANGED << anVars, jpVars, gzVars, padVars, mkVars >>

NextVerify == VaVerify \/ VaReport

SpecVerify == InitVerify /\ [][NextVerify]_vars

\* ------------------------------------------------------------------------
\* Specification SpecPdf: contents = adjustPDF(contents); write hacked.pdf
\* (pdf.py lines 197-200), then adjustPDF applied once more to its output
\* ------------------------------------------------------------------------
\* b"%PDF\n"
PdfHeader == << 37, 80, 68, 70, 10 >>

\* b"%i 0 obj\nendobj\n" % i
PdfObject(i) ==
    FmtInt(i) \o << 32, 48, 32, 111, 98, 106, 10 >> \o << 101, 110, 100, 111, 98, 106, 10 >>

\* the objects numbered in present, in ascending order from number i on
RECURSIVE PdfObjects(_, _)
PdfObjects(present, i) ==
    IF i > MaxObj THEN << >>
    ELSE (IF i \in present THEN PdfObject(i) ELSE << >>) \o PdfObjects(present, i + 1)

\* one 20-byte entry of the table as the merged file holds it
PdfOrigEntry ==
    << 48, 48, 48, 48, 48, 48, 48, 48, 48, 48, 32, 54, 53, 53, 51, 53, 32, 102, 32, 10 >>

RECURSIVE PdfEntries(_)
PdfEntries(m) == IF m = 0 THEN << >> ELSE PdfOrigEntry \o PdfEntries(m - 1)

\* the declared object count as written after "0 ": plain, or zero-padded
PdfCountTokens == { FmtInt(k) : k \in 0..(MaxObj + 1) } \cup { << 48 >> \o FmtInt(MaxObj) }

\* the old value after startxref
PdfOldValues == { << 48 >>, << 57, 57, 57 >> }

\* the end of the file: b"\n%%EOF\n", or with four percent signs
PdfEofs == { << 10, 37, 37, 69, 79, 70, 10 >>, << 10, 37, 37, 37, 37, 69, 79, 70, 10 >> }

\* bytes after the end-of-file line: none, or an appended object 1
PdfTails == { << >>, PdfObject(1) }

\* header, objects, "xref\n0 <count>\n", m entries, a blank line, the trailer,
\* the startxref line (when sx), the old value, the end-of-file line, the tail
PdfFile(present, count, m, sx, old, eof, tail) ==
    PdfHeader \o PdfObjects(present, 1)
      \o XrefWord \o << 10, 48, 32 >> \o count \o << 10 >>
      \o PdfEntries(m) \o << 10 >>
      \o << 116, 114, 97, 105, 108, 101, 114, 10, 60, 60, 62, 62 >>
      \o (IF sx THEN StartxrefMarker ELSE << 10 >>)
      \o old \o eof \o tail

PdfInputs ==
    { PdfFile(present, count, m, sx, old, eof, tail) :
        present \in SUBSET (1..MaxObj), count \in PdfCountTokens,
        m \in 0..(MaxObj + 2), sx \in BOOLEAN, old \in PdfOldValues,
        eof \in PdfEofs, tail \in PdfTails }

InitPdf ==
    /\ AnIdle /\ JpIdle /\ GzIdle /\ PadIdle /\ MkIdle
    /\ OvIdle
    /\ CaIdle
    /\ VaIdle
    /\ pdf_in \in PdfInputs
    /\ pdf_out = << >>
    /\ pdf_err = ""
    /\ pdf_mismatch = FALSE
    /\ pdf_objCount = -1
    /\ pdf_hacked_exists = FALSE
    /\ pdf_hacked = << >>
    /\ pdf_again = [err |-> "", out |-> << >>]
    /\ pdf_pc = "start"

\* line 197: contents = adjustPDF(contents)
PdfAdjust ==
    /\ pdf_pc = "start"
    /\ LET r == adjustPDF(pdf_in)
       IN  /\ pdf_pc' = IF r.err = "" THEN "adjusted" ELSE "raised"
           /\ pdf_err' = r.err
           /\ pdf_out' = r.out
           /\ pdf_mismatch' = r.mismatch
           /\ pdf_objCount' = r.objCount
    /\ UNCHANGED << pdf_in, pdf_hacked_exists, pdf_hacked, pdf_again >>
    /\ UNCHANGED << ovVars, caVars, vaVars >>
    /\ UNCHANGED << anVars, jpVars, gzVars, padVars, mkVars >>

\* lines 199-200: hacked.pdf is written
PdfWriteHacked ==
    /\ pdf_pc = "adjusted"
    /\ pdf_hacked_exists' = TRUE
    /\ pdf_hacked' = pdf_out
    /\ pdf_pc' = "written"
    /\ UNCHANGED << pdf_in, pdf_out, pdf_err, pdf_mismatch, pdf_objCount, pdf_again >>
    /\ UNCHANGED << ovVars, caVars, vaVars >>
    /\ UNCHANGED << anVars, jpVars, gzVars, padVars, mkVars >>

\* adjustPDF applied to the bytes it returned
PdfAdjustAgain ==
    /\ pdf_pc = "written"
    /\ LET r == adjustPDF(pdf_hacked)
       IN  pdf_again' = [err |-> r.err, out |-> r.out]
    /\ pdf_pc' = "readjusted"
    /\ UNCHANGED << pdf_in, pdf_out, pdf_err, pdf_mismatch, pdf_objCount,
                    pdf_hacked_exists, pdf_hacked >>
    /\ UNCHANGED << ovVars, caVars, vaVars >>
    /\ UNCHANGED << anVars, jpVars, gzVars, padVars, mkVars >>

NextPdf == PdfAdjust \/ PdfWriteHacked \/ PdfAdjustAgain

SpecPdf == InitPdf /\ [][NextPdf]_vars

\* ------------------------------------------------------------------------
\* Specification SpecAnalyze: one run of analyze() of either analyzer
\* ------------------------------------------------------------------------
\* the artifacts: every short file over two byte values; a JPEG with two
\* comments (FF D8, FF FE 00 02, FF FE 00 02); that JPEG cut before the
\* length of the second comment; a gzip header with FEXTRA set and no XLEN
\* field behind it; a gzip header without optional fields
AnFiles ==
    UNION { [1..n -> {0, 1}] : n \in 0..MaxFile }
      \cup { << 255, 216, 255, 254, 0, 2, 255, 254, 0, 2 >>,
             << 255, 216, 255, 254, 0, 2, 255, 254 >>,
             << 31, 139, 8, 4, 0, 0, 0, 0, 0, 3 >>,
             << 31, 139, 8, 0, 0, 0, 0, 0, 0, 3 >> }

InitAnalyze ==
    /\ OvIdle /\ CaIdle /\ VaIdle /\ PdfIdle
    /\ JpIdle /\ GzIdle /\ PadIdle /\ MkIdle
    /\ an_tool \in {"reusable", "identical"}
    /\ an_fmt \in (IF an_tool = "reusable" THEN {"jpeg", "pdf", "gzip"} ELSE {"none"})
    /\ an_exists \in BOOLEAN
    /\ an_c1 \in AnFiles
    /\ an_c2 \in AnFiles
    /\ an_fd = FdUnset
    /\ an_suffix = -1
    /\ an_written = {}
    /\ an_err = ""
    /\ an_pc = "start"

\* analyze() with the test of first_diff's result left out
AnDiff_NoTest ==
    /\ an_pc = "start"
    /\ an_exists
    /\ an_fd' = first_diff(an_c1, an_c2)
    /\ an_pc' = "diffed"
    /\ UNCHANGED << an_tool, an_fmt, an_exists, an_c1, an_c2, an_suffix, an_written, an_err >>
    /\ UNCHANGED << coreVars, jpVars, gzVars, padVars, mkVars >>

\* verify_reusable lines 221-241, verify_identical lines 143-196: the files are
\* read and compared; SystemExit when one is missing or when they are identical
AnDiff ==
    /\ an_pc = "start"
    /\ IF ~an_exists
       THEN /\ an_pc' = "exit"
            /\ an_err' = "missing"
            /\ UNCHANGED << an_fd, an_suffix >>
       ELSE LET fd == first_diff(an_c1, an_c2)
            IN  /\ an_fd' = fd
                /\ IF fd = FdNone
                   THEN /\ an_pc' = "exit"
                        /\ an_err' = "identical"
                        /\ UNCHANGED an_suffix
                   ELSE /\ an_pc' = "diffed"
                        /\ an_suffix' = IF an_tool = "reusable"
                                        THEN common_suffix_start(an_c1, an_c2)
                                        ELSE -1
                        /\ UNCHANGED an_err
    /\ UNCHANGED << an_tool, an_fmt, an_exists, an_c1, an_c2, an_written >>
    /\ UNCHANGED << coreVars, jpVars, gzVars, padVars, mkVars >>

\* verify_reusable lines 244-245, verify_identical lines 202-203
AnWriteHeads ==
    /\ an_pc = "diffed"
    /\ an_written' = an_written \cup {"c1.head.hex", "c2.head.hex"}
    /\ an_pc' = "heads"
    /\ UNCHANGED << an_tool, an_fmt, an_exists, an_c1, an_c2, an_fd, an_suffix, an_err >>
    /\ UNCHANGED << coreVars, jpVars, gzVars, padVars, mkVars >>

\* verify_reusable lines 248-308: the format specific analysis; it raises
\* when c2 ends before the length bytes of c1's second COM (line 263) or
\* when a gzip header has no XLEN (lines 286-287)
AnFormat ==
    /\ an_pc = "heads"
    /\ an_tool = "reusable"
    /\ IF \/ /\ an_fmt = "jpeg"
             /\ jpeg_find_second_com(an_c1) # JpNone
             /\ jpeg_find_second_com(an_c1)[2] + 1 >= Len(an_c2)
          \/ /\ an_fmt = "gzip"
             /\ (gzip_parse_header(an_c1).err # ""
                   \/ gzip_parse_header(an_c2).err # "")
       THEN an_pc' = "exit" /\ an_err' = (IF an_fmt = "jpeg" THEN "IndexError" ELSE "struct.error")
       ELSE an_pc' = "formatted" /\ UNCHANGED an_err
    /\ UNCHANGED << an_tool, an_fmt, an_exists, an_c1, an_c2, an_fd, an_suffix, an_written >>
    /\ UNCHANGED << coreVars, jpVars, gzVars, padVars, mkVars >>

\* verify_identical lines 205-211
AnWriteBlock ==
    /\ an_pc = "heads"
    /\ an_tool = "identical"
    /\ an_written' = an_written \cup {"collision_block.hex"}
    /\ an_pc' = "formatted"
    /\ UNCHANGED << an_tool, an_fmt, an_exists, an_c1, an_c2, an_fd, an_suffix, an_err >>
    /\ UNCHANGED << coreVars, jpVars, gzVars, padVars, mkVars >>

\* verify_reusable lines 310-327, verify_identical lines 213-342
AnWriteAnalysis ==
    /\ an_pc = "formatted"
    /\ an_written' = an_written \cup {"analysis.md"}
    /\ an_pc' = "done"
    /\ UNCHANGED << an_tool, an_fmt, an_exists, an_c1, an_c2, an_fd, an_suffix, an_err >>
    /\ UNCHANGED << coreVars, jpVars, gzVars, padVars, mkVars >>

NextAnalyze == AnDiff \/ AnWriteHeads \/ AnFormat \/ AnWriteBlock \/ AnWriteAnalysis

SpecAnalyze == InitAnalyze /\ [][NextAnalyze]_vars

\* ------------------------------------------------------------------------
\* Specification SpecJpeg: jpeg_find_second_com(data), the loop step by step
\* ------------------------------------------------------------------------
\* pieces of a marker stream: comments (plain, behind a fill byte, holding
\* the bytes of a comment, longer than the data), an APP0 segment, markers
\* without a length field, a comment cut after one length byte, an APP0
\* segment declaring length 0, a run of fill bytes, a stray byte
JpPieces ==
    { << 255, 254, 0, 2 >>,
      << 255, 255, 254, 0, 2 >>,
      << 255, 254, 0, 6, 255, 254, 0, 2 >>,
      << 255, 254, 0, 9 >>,
      << 255, 224, 0, 3, 254 >>,
      << 255, 217 >>,
      << 255, 208 >>,
      << 255, 1 >>,
      << 255, 254, 0 >>,
      << 255, 224, 0, 0 >>,
      << 255, 255 >>,
      << 0 >> }

RECURSIVE JpStreams(_)
JpStreams(n) ==
    IF n = 0 THEN { << >> }
    ELSE { << >> } \cup { p \o t : p \in JpPieces, t \in JpStreams(n - 1) }

\* data starts with SOI, with another marker, or with the pieces themselves
InitJpeg ==
    /\ OvIdle /\ CaIdle /\ VaIdle /\ PdfIdle
    /\ AnIdle /\ GzIdle /\ PadIdle /\ MkIdle
    /\ jp_data \in { h \o t : h \in { << 255, 216 >>, << 255, 217 >>, << >> },
                               t \in JpStreams(MaxPieces) }
    /\ jp_i = 0
    /\ jp_com_seen = 0
    /\ jp_res = JpUnset
    /\ jp_pc = "entry"

\* lines 82-85
JpEnter ==
    /\ jp_pc = "entry"
    /\ IF JpegHasSoi(jp_data)
       THEN jp_pc' = "loop" /\ jp_i' = 2 /\ jp_res' = jp_res
       ELSE jp_pc' = "returned" /\ jp_i' = jp_i /\ jp_res' = JpNone
    /\ UNCHANGED << jp_data, jp_com_seen >>
    /\ UNCHANGED << coreVars, anVars, gzVars, padVars, mkVars >>

\* lines 86-110: one iteration of the while loop
JpIter ==
    /\ jp_pc = "loop"
    /\ jp_i + 3 <= Len(jp_data)
    /\ LET r == JpegIter(jp_data, jp_i, jp_com_seen)
       IN  /\ jp_i' = r.i
           /\ jp_com_seen' = r.com_seen
           /\ jp_res' = r.res
           /\ jp_pc' = IF r.done THEN "returned" ELSE "loop"
    /\ UNCHANGED jp_data
    /\ UNCHANGED << coreVars, anVars, gzVars, padVars, mkVars >>

\* lines 86 and 111: the loop test fails, None is returned
JpExit ==
    /\ jp_pc = "loop"
    /\ jp_i + 3 > Len(jp_data)
    /\ jp_res' = JpNone
    /\ jp_pc' = "returned"
    /\ UNCHANGED << jp_data, jp_i, jp_com_seen >>
    /\ UNCHANGED << coreVars, anVars, gzVars, padVars, mkVars >>

NextJpeg == JpEnter \/ JpIter \/ JpExit

SpecJpeg == InitJpeg /\ [][NextJpeg]_vars

\* the call runs on: a loop that can take a step takes it
SpecJpegFair == SpecJpeg /\ WF_vars(NextJpeg)

\* ------------------------------------------------------------------------
\* Specification SpecGzip: one call of gzip_parse_header(b)
\* ------------------------------------------------------------------------
\* what follows the ten fixed bytes
GzTails == UNION { [1..n -> {0, 1, 65}] : n \in 0..MaxTail }

\* 1F 8B 08 flg, MTIME of four bytes, XFL, OS
GzFixed(flg) == << 31, 139, 8, flg, 0, 0, 0, 0, 0, 3 >>

\* gzip members (flag byte: no field, FHCRC, FEXTRA, FNAME, FCOMMENT, and
\* combinations), a member cut inside its fixed header, other data
GzInputs ==
    { GzFixed(flg) \o t : flg \in { 0, 2, 4, 8, 16, 12, 24, 30 }, t \in GzTails }
      \cup { SubSeq(GzFixed(8), 1, n) : n \in 0..9 }
      \cup { << 31, 140 >> \o SubSeq(GzFixed(0), 3, 10) \o t : t \in GzTails }

InitGzip ==
    /\ OvIdle /\ CaIdle /\ VaIdle /\ PdfIdle
    /\ AnIdle /\ JpIdle /\ PadIdle /\ MkIdle
    /\ gz_b \in GzInputs
    /\ gz_res = [err |-> "", off |-> -1, valid |-> FALSE]
    /\ gz_pc = "call"

\* lines 130-155
GzParse ==
    /\ gz_pc = "call"
    /\ gz_res' = gzip_parse_header(gz_b)
    /\ gz_pc' = IF gz_res'.err = "" THEN "returned" ELSE "raised"
    /\ UNCHANGED gz_b
    /\ UNCHANGED << coreVars, anVars, jpVars, padVars, mkVars >>

NextGzip == GzParse

SpecGzip == InitGzip /\ [][NextGzip]_vars

\* ------------------------------------------------------------------------
\* Specification SpecPad: pad_to_block.py run twice on one file
\* ------------------------------------------------------------------------
\* the file: every length up to MaxPadLen, one repeated byte value
InitPad ==
    /\ OvIdle /\ CaIdle /\ VaIdle /\ PdfIdle
    /\ AnIdle /\ JpIdle /\ GzIdle /\ MkIdle
    /\ pad_in \in { [i \in 1..n |-> c] : n \in 0..MaxPadLen, c \in {0, 7} }
    /\ pad_data = pad_in
    /\ pad_writes = 0
    /\ pad_first = << >>
    /\ pad_pc = "first"

\* pad_file(path), lines 12-23: the first run
PadFirst ==
    /\ pad_pc = "first"
    /\ LET r == pad_file(pad_data)
       IN  /\ pad_data' = r.data
           /\ pad_first' = r.data
           /\ pad_writes' = IF r.written THEN pad_writes + 1 ELSE pad_writes
    /\ pad_pc' = "second"
    /\ UNCHANGED pad_in
    /\ UNCHANGED << coreVars, anVars, jpVars, gzVars, mkVars >>

\* pad_file(path), lines 12-23: run again on the same path
PadSecond ==
    /\ pad_pc = "second"
    /\ LET r == pad_file(pad_data)
       IN  /\ pad_data' = r.data
           /\ pad_writes' = IF r.written THEN pad_writes + 1 ELSE pad_writes
    /\ pad_pc' = "done"
    /\ UNCHANGED << pad_in, pad_first >>
    /\ UNCHANGED << coreVars, anVars, jpVars, gzVars, mkVars >>

NextPad == PadFirst \/ PadSecond

SpecPad == InitPad /\ [][NextPad]_vars

\* ------------------------------------------------------------------------
\* Specification SpecMake: pdf_wrap.py wraps one payload (lines 128-130)
\* ------------------------------------------------------------------------
\* the payload read_concat returns; the title is the name of the prefix
\* file, over the characters 'a' and ')'; the second run wraps a payload of
\* the same length under a title of its own
InitMake ==
    /\ OvIdle /\ CaIdle /\ VaIdle /\ PdfIdle
    /\ AnIdle /\ JpIdle /\ GzIdle /\ PadIdle
    /\ mk_payload \in UNION { [1..n -> {0, 65}] : n \in 0..MaxPayload }
    /\ mk_title \in UNION { [1..n -> {97, 41}] : n \in 0..MaxTitle }
    /\ mk_out = << >>
    /\ mk_pc = "call"
    /\ mk_payload2 \in [1..Len(mk_payload) -> {0, 65}]
    /\ mk_title2 \in UNION { [1..n -> {97, 41}] : n \in 0..MaxTitle }
    /\ mk_out2 = << >>

\* line 130: pdf_bytes = make_pdf(payload, visible_title=title)
MkPdf ==
    /\ mk_pc = "call"
    /\ mk_out' = make_pdf(mk_payload, mk_title)
    /\ mk_pc' = "returned"
    /\ UNCHANGED << mk_payload, mk_title, mk_payload2, mk_title2, mk_out2 >>
    /\ UNCHANGED << coreVars, anVars, jpVars, gzVars, padVars >>

\* line 130 in the second run, on a payload as long as the first
MkPdf2 ==
    /\ mk_pc = "returned"
    /\ mk_out2' = make_pdf(mk_payload2, mk_title2)
    /\ mk_pc' = "returned2"
    /\ UNCHANGED << mk_payload, mk_title, mk_out, mk_payload2, mk_title2 >>
    /\ UNCHANGED << coreVars, anVars, jpVars, gzVars, padVars >>

NextMake == MkPdf \/ MkPdf2

SpecMake == InitMake /\ [][NextMake]_vars

\* ------------------------------------------------------------------------
\* Claims on overlay() and find_payload(), checked under SpecOverlay
\* ------------------------------------------------------------------------
\* C1 (as claimed): after a successful overlay() the output differs from the
\* template only at indices in [payload_start+prefix_len,
\* payload_start+prefix_len+len(S)); at every other index both files have a
\* byte and the two bytes are equal.
C1_OverlayFrame ==
    ov_pc = "returned" =>
        LET off == ov_found[1] + ov_prefix_len
            n   == IF Len(ov_out) > Len(ov_tbs) THEN Len(ov_out) ELSE Len(ov_tbs)
        IN  \A k \in 0..(n - 1) :
                (k < off \/ k >= off + Len(ov_S)) =>
                    /\ k < Len(ov_out)
                    /\ k < Len(ov_tbs)
                    /\ ov_out[k + 1] = ov_tbs[k + 1]

\* C2: with C the capacity find_payload decoded, overlay() succeeds when
\* prefix_len + len(S) = C and raises "too large" when prefix_len + len(S) = C + 1.
C2_Boundary ==
    (ov_pc # "call" /\ ov_found[1] >= 0) =>
        /\ (ov_prefix_len + Len(ov_S) = ov_found[2]) =>
               (ov_pc = "returned" /\ ov_out_exists)
        /\ (ov_prefix_len + Len(ov_S) = ov_found[2] + 1) =>
               (ov_pc = "raised" /\ ov_err = "Linking block too large")

\* C2 witness: a non-empty block behind a non-empty prefix fills the region exactly
C2_Witness ==
    /\ ov_pc = "returned"
    /\ ov_prefix_len > 0
    /\ Len(ov_S) > 0
    /\ ov_prefix_len + Len(ov_S) = ov_found[2]

\* C3 (as claimed): after any successful overlay() the output is as long as
\* the template and the OCTET STRING length field still decodes to the
\* template's declared capacity.
C3_LengthPreserved ==
    ov_pc = "returned" =>
        /\ Len(ov_out) = Len(ov_tbs)
        /\ find_payload(ov_out).err = ""
        /\ find_payload(ov_out).L = ov_found[2]

\* the first occurrence of the OID pattern starts at 0-based index i
FirstOidAt(buf, i) ==
    /\ MatchesAt(buf, OID, i)
    /\ \A i2 \in 0..(i - 1) : ~MatchesAt(buf, OID, i2)

\* C10: when the first occurrence of the OID is followed at index j by the
\* tag 0x04, find_payload returns (j+2, l1) for a short-form length l1 < 0x80
\* and (j+4, 256*b1+b2) for the long form 0x82 b1 b2.
C10_FindPayloadResult ==
    ov_pc # "call" =>
        \A i \in 0..Len(ov_tbs) :
            LET j == i + 9
            IN  (FirstOidAt(ov_tbs, i) /\ j + 1 < Len(ov_tbs) /\ ov_tbs[j + 1] = 4) =>
                  /\ (ov_tbs[j + 2] < 128) =>
                         ov_found = << j + 2, ov_tbs[j + 2] >>
                  /\ (ov_tbs[j + 2] = 130 /\ j + 3 < Len(ov_tbs)) =>
                         ov_found = << j + 4, 256 * ov_tbs[j + 3] + ov_tbs[j + 4] >>

\* C10 witness: a long-form length behind a non-empty header was decoded
C10_Witness ==
    /\ ov_pc # "call"
    /\ ov_found[1] > 13
    /\ ov_found[2] > 256
    /\ ov_tbs[ov_found[1] - 2] = 130

\* C11 (as claimed): when the first occurrence of the OID is followed at
\* index j by the tag 0x04 and the length field 0x81 b1, find_payload does not
\* fail and returns (j+3, b1).
C11_OneByteLongForm ==
    ov_pc # "call" =>
        \A i \in 0..Len(ov_tbs) :
            LET j == i + 9
            IN  (FirstOidAt(ov_tbs, i) /\ j + 2 < Len(ov_tbs)
                   /\ ov_tbs[j + 1] = 4 /\ ov_tbs[j + 2] = 129) =>
                  /\ ov_err # "Unexpected length form"
                  /\ ov_found = << j + 3, ov_tbs[j + 3] >>

\* the buffer holds no occurrence of the OID pattern
NoOid(buf) == \A i \in 0..Len(buf) : ~MatchesAt(buf, OID, i)

\* the first occurrence of the OID pattern is not followed by the byte 0x04
\* (another byte follows it, or the buffer ends with it)
OidWithoutTag(buf) ==
    \E i \in 0..Len(buf) :
        /\ FirstOidAt(buf, i)
        /\ (i + 9 >= Len(buf) \/ buf[i + 10] # 4)

\* C12: when the OID pattern does not occur in the template, or its first
\* occurrence is not followed by the tag 0x04, find_payload raises and
\* overlay() has no (offset, capacity).
C12_FindPayloadRejects ==
    (ov_pc # "call" /\ (NoOid(ov_tbs) \/ OidWithoutTag(ov_tbs))) =>
        /\ ov_pc = "raised"
        /\ ov_found = << -1, -1 >>
        /\ ov_err \in { "OID 1.2.3.4.5.6.7.8 not found", "IndexError",
                         "Expected OCTET STRING after OID" }

\* C12 witness: the OID was found behind a header, followed by another tag
C12_Witness ==
    /\ ov_pc = "raised"
    /\ ov_err = "Expected OCTET STRING after OID"
    /\ \E i \in 1..Len(ov_tbs) : FirstOidAt(ov_tbs, i) /\ ov_tbs[i + 10] = 5

\* C13: after a successful overlay(), find_payload on the bytes written
\* returns the (payload_start, payload_len) it returned on the template.
C13_RoundTrip ==
    ov_pc = "returned" =>
        find_payload(ov_out)
          = [err |-> "", payload_start |-> ov_found[1], L |-> ov_found[2]]

\* C13 witness: the block written carries a copy of the OID, so the output
\* holds the pattern twice, the copy inside the reserved region
C13_Witness ==
    /\ ov_pc = "returned"
    /\ \E k \in 0..Len(ov_S) : MatchesAt(ov_S, OID, k)
    /\ \E i1, i2 \in 0..Len(ov_out) :
          /\ i1 < i2
          /\ MatchesAt(ov_out, OID, i1)
          /\ MatchesAt(ov_out, OID, i2)
          /\ i2 >= ov_found[1] + ov_prefix_len
          /\ i2 + 9 <= ov_found[1] + ov_found[2]

\* C19: an overlay() call that raises leaves the output path as it was (not
\* created, not overwritten) and leaves the template as it was.
C19_FailureWritesNothing ==
    [][ov_pc' = "raised" =>
          /\ ov_out_exists' = ov_out_exists
          /\ ov_out' = ov_out
          /\ ov_tbs' = ov_tbs]_vars

\* C19 witness: a call that raised "too large" with an output file already there
C19_Witness ==
    /\ ov_pc = "raised"
    /\ ov_err = "Linking block too large"
    /\ ov_out_exists
    /\ ov_out = << 1 >>

\* ------------------------------------------------------------------------
\* Claims on the certificate pipeline, checked under SpecCA
\* ------------------------------------------------------------------------
\* C4 (as claimed): once both overlay() calls of the pipeline have run, the
\* absolute start offset of the written block (payload_start + prefix_len) is
\* the same in artifact A and in artifact B.
C4_SameBlockOffset ==
    ca_pc = "done" => ca_offA = ca_offB

\* ------------------------------------------------------------------------
\* Claims on verify_all, checked under SpecVerify
\* ------------------------------------------------------------------------
\* the manifest can be processed and its two artifacts have the same MD5
VaPairCollides(m) ==
    /\ m.json_ok
    /\ Len(m.arts) >= 2
    /\ m.arts[1] # NoFile
    /\ m.arts[2] # NoFile
    /\ Md5Of(m.arts[1]) = Md5Of(m.arts[2])

\* C5 (as claimed): verify_all exits with status 0 only when every manifest
\* could be processed and every verified pair has equal MD5; a pair with
\* different MD5 or a manifest that cannot be processed gives a non-zero status.
C5_ExitNonZeroOnMismatch ==
    (va_pc = "exited" /\ va_exit = 0) =>
        \A k \in 1..Len(va_manifests) : VaPairCollides(va_manifests[k])

\* ------------------------------------------------------------------------
\* Claims on adjustPDF, checked under SpecPdf
\* ------------------------------------------------------------------------
\* 0-based offset of the keyword xref of the first "\nxref\n0 " table, -1 if none
XrefOffset(b) ==
    IF Find(b, XrefMarker, 0) < 0 THEN -1 ELSE Find(b, XrefMarker, 0) + 1

\* 0-based offset one past the last byte of that table (the space before the
\* blank line), -1 if the table is not terminated by " \n\n"
XrefEndOffset(b) ==
    IF XrefOffset(b) < 0 \/ Find(b, XrefEnd, XrefOffset(b)) < 0 THEN -1
    ELSE Find(b, XrefEnd, XrefOffset(b)) + 1

\* 0-based offset of the first byte after the "\nstartxref\n" line that follows
\* the table, -1 if there is none
StartxrefValueOffset(b) ==
    IF XrefEndOffset(b) < 0 \/ Find(b, StartxrefMarker, XrefEndOffset(b)) < 0 THEN -1
    ELSE Find(b, StartxrefMarker, XrefEndOffset(b)) + Len(StartxrefMarker)

\* the input is one the claims speak of: a "\nxref\n0 N" table terminated by
\* " \n\n" and a following "\nstartxref\n" line
PdfWellFormed(b) == StartxrefValueOffset(b) >= 0

\* the run of decimal digits of b from 0-based offset p on
RECURSIVE DigitRun(_, _)
DigitRun(b, p) ==
    IF p < Len(b) /\ IsDigit(b[p + 1]) THEN << b[p + 1] >> \o DigitRun(b, p + 1) ELSE << >>

\* C6 (as claimed): for every input with a terminated table and a startxref
\* line on which adjustPDF returns, adjustPDF of the returned bytes returns
\* the same bytes.
C6_AdjustIdempotent ==
    (pdf_pc = "readjusted" /\ PdfWellFormed(pdf_in)) =>
        (pdf_again.err = "" /\ pdf_again.out = pdf_out)

\* C7 (as claimed): in the bytes adjustPDF returns, the decimal number after
\* the startxref line is the offset of the keyword xref of the table, and the
\* table is as long as the table of the input.
C7_StartxrefAndTableLength ==
    (pdf_pc \in {"adjusted", "written", "readjusted"} /\ PdfWellFormed(pdf_in)) =>
        /\ PdfWellFormed(pdf_out)
        /\ DigitRun(pdf_out, StartxrefValueOffset(pdf_out)) = FmtInt(XrefOffset(pdf_out))
        /\ XrefEndOffset(pdf_out) - XrefOffset(pdf_out)
             = XrefEndOffset(pdf_in) - XrefOffset(pdf_in)

\* C8 (as claimed): when the rebuilt block is not as long as the original
\* block, adjustPDF ends with an error, returns nothing, and hacked.pdf is not
\* written.
C8_LengthMismatchIsFatal ==
    (pdf_pc # "start" /\ pdf_mismatch) =>
        (pdf_err # "" /\ pdf_out = << >> /\ ~pdf_hacked_exists)

\* C9 (as claimed): when an object id i, 1 <= i < objCount, has no
\* "\n<i> 0 obj\n" header in the bytes, adjustPDF fails with an error.
C9_MissingObjectIsError ==
    (pdf_pc # "start"
       /\ \E i \in 1..(pdf_objCount - 1) : Find(pdf_in, ObjHeader(i), 0) < 0) =>
        pdf_err # ""

\* ------------------------------------------------------------------------
\* Claims on the analyzers, checked under SpecAnalyze
\* ------------------------------------------------------------------------
\* C14: when first_diff returns None, analyze() of either analyzer ends with
\* an error and none of c1.head.hex, c2.head.hex, collision_block.hex,
\* analysis.md has been written.
C14_IdenticalAborts ==
    an_fd = FdNone =>
        /\ an_pc = "exit"
        /\ an_err = "identical"
        /\ an_written = {}

\* C14 witness: verify_identical has stopped on two equal non-empty files
C14_Witness ==
    /\ an_tool = "identical"
    /\ an_pc = "exit"
    /\ an_fd = FdNone
    /\ Len(an_c1) > 0

\* a[k] == b[k] at every 0-based index k >= s (both as long as a)
SameFrom(a, b, s) == \A k \in s..(Len(a) - 1) : a[k + 1] = b[k + 1]

\* a is a proper prefix of b
ProperPrefix(a, b) == Len(a) < Len(b) /\ SubSeq(b, 1, Len(a)) = a

\* C15: for files of equal length that differ, first_diff returns the
\* smallest differing index and common_suffix_start the smallest s from which
\* on the files agree, so a[s-1] != b[s-1] and the first difference is below
\* s; for equal files first_diff returns None; when one file is a proper
\* prefix of the other it returns (min length, -1, -1).
C15_FirstDiffAndSuffix ==
    (an_pc # "start" /\ an_exists) =>
        /\ (an_c1 = an_c2) => (an_fd = FdNone)
        /\ ProperPrefix(an_c1, an_c2) => (an_fd = << Len(an_c1), -1, -1 >>)
        /\ ProperPrefix(an_c2, an_c1) => (an_fd = << Len(an_c2), -1, -1 >>)
        /\ (Len(an_c1) = Len(an_c2) /\ an_c1 # an_c2) =>
              /\ an_fd[1] \in 0..(Len(an_c1) - 1)
              /\ an_c1[an_fd[1] + 1] # an_c2[an_fd[1] + 1]
              /\ \A k \in 0..(an_fd[1] - 1) : an_c1[k + 1] = an_c2[k + 1]
              /\ an_fd[2] = an_c1[an_fd[1] + 1]
              /\ an_fd[3] = an_c2[an_fd[1] + 1]
              /\ (an_tool = "reusable") =>
                    /\ an_suffix \in 1..Len(an_c1)
                    /\ SameFrom(an_c1, an_c2, an_suffix)
                    /\ an_c1[an_suffix] # an_c2[an_suffix]
                    /\ an_fd[1] < an_suffix

\* C15 witness: equal-length files with a common head, one difference and a
\* common tail have been compared by verify_reusable
C15_Witness ==
    /\ an_tool = "reusable"
    /\ an_pc = "diffed"
    /\ Len(an_c1) = Len(an_c2)
    /\ an_fd # FdNone
    /\ an_fd[1] > 0
    /\ an_suffix < Len(an_c1)

\* ------------------------------------------------------------------------
\* Claims on jpeg_find_second_com, checked under SpecJpeg
\* ------------------------------------------------------------------------
\* the data is not a marker stream: a segment is followed by a byte other than 0xFF
RefMalformed == << -1 >>

\* the walk the claim describes, from 0-based offset pos with seen comments
\* passed: fill bytes are skipped, SOI/EOI/TEM/RST0-7 have no length field,
\* any other segment is jumped by its length; << marker_pos, len_pos, length >>
\* of the second comment, << >> when the data ends first
RECURSIVE RefWalk(_, _, _)
RefWalk(data, pos, seen) ==
    IF pos >= Len(data) THEN << >>
    ELSE IF data[pos + 1] # 255 THEN RefMalformed
    ELSE LET q == MinOf({ k \in pos..Len(data) : k = Len(data) \/ data[k + 1] # 255 })
         IN  IF q >= Len(data) THEN << >>
             ELSE IF data[q + 1] \in ({216, 217, 1} \cup (208..215))
                  THEN RefWalk(data, q + 1, seen)
             ELSE IF q + 2 >= Len(data) THEN << >>
             ELSE LET length == 256 * data[q + 2] + data[q + 3]
                  IN  IF data[q + 1] = 254 /\ seen = 1
                      THEN << q - 1, q + 1, length >>
                      ELSE RefWalk(data, q + 1 + length,
                                   IF data[q + 1] = 254 THEN seen + 1 ELSE seen)

RefSecondCom(data) ==
    IF Len(data) >= 2 /\ data[1] = 255 /\ data[2] = 216
    THEN RefWalk(data, 2, 0)
    ELSE << >>

\* C16: on a marker stream jpeg_find_second_com returns the second COM
\* segment in stream order, with marker_pos at the 0xFF right before 0xFE,
\* len_pos = marker_pos + 2 and length = 256*data[len_pos] + data[len_pos+1];
\* it returns None when the data does not start with FF D8 or ends before a
\* second COM segment.
C16_SecondComFound ==
    (jp_pc = "returned" /\ RefSecondCom(jp_data) # RefMalformed) =>
        IF RefSecondCom(jp_data) = << >>
        THEN jp_res = JpNone
        ELSE /\ jp_res # JpNone
             /\ << jp_res[1], jp_res[2], jp_res[3] >> = RefSecondCom(jp_data)
             /\ jp_data[jp_res[1] + 1] = 255
             /\ jp_data[jp_res[1] + 2] = 254
             /\ jp_res[2] = jp_res[1] + 2
             /\ jp_res[3] = 256 * jp_data[jp_res[2] + 1] + jp_data[jp_res[2] + 2]

\* C16 witness: the second comment was found behind a fill byte, after a
\* first comment whose content holds the bytes of a comment
C16_Witness ==
    /\ jp_pc = "returned"
    /\ jp_res # JpNone
    /\ jp_res[1] >= 11
    /\ jp_data[jp_res[1]] = 255
    /\ SubSeq(jp_data, 3, 10) = << 255, 254, 0, 6, 255, 254, 0, 2 >>

\* ------------------------------------------------------------------------
\* Claims on gzip_parse_header, checked under SpecGzip
\* ------------------------------------------------------------------------
\* 0-based offset behind the zero-terminated field that starts at i, -1 when
\* the data holds no zero byte from i on
RefAfterZero(b, i) ==
    IF \E k \in i..(Len(b) - 1) : b[k + 1] = 0
    THEN MinOf({ k \in i..(Len(b) - 1) : b[k + 1] = 0 }) + 1
    ELSE -1

\* the header length of a member whose selected fields are all complete: 10
\* plus FEXTRA (2 + XLEN), FNAME and FCOMMENT (to their zero byte), FHCRC (2);
\* -1 when a selected field is cut off
RefHeaderLen(b) ==
    LET flg == b[4]
        e   == IF ~FlagSet(flg, 4) THEN 10
               ELSE IF Len(b) < 12 THEN -1
               ELSE 12 + b[11] + 256 * b[12]
        n   == IF e < 0 \/ ~FlagSet(flg, 8) THEN e ELSE RefAfterZero(b, e)
        c   == IF n < 0 \/ ~FlagSet(flg, 16) THEN n ELSE RefAfterZero(b, n)
    IN  IF c < 0 THEN -1 ELSE IF FlagSet(flg, 2) THEN c + 2 ELSE c

\* C17 (as claimed): on an input of at least 10 bytes starting with 1F 8B
\* gzip_parse_header returns an offset that is never below 10 (also when a
\* FNAME or FCOMMENT field has no zero byte) and that is 10 plus the sizes of
\* the selected optional fields; on any other input it returns (0, valid=False).
C17_HeaderOffset ==
    gz_pc # "call" =>
        IF Len(gz_b) >= 10 /\ gz_b[1] = 31 /\ gz_b[2] = 139
        THEN /\ gz_pc = "returned"
             /\ gz_res.valid
             /\ gz_res.off >= 10
             /\ (RefHeaderLen(gz_b) >= 0) => (gz_res.off = RefHeaderLen(gz_b))
        ELSE /\ gz_pc = "returned"
             /\ gz_res.off = 0
             /\ ~gz_res.valid

\* ------------------------------------------------------------------------
\* Claims on pad_file, checked under SpecPad
\* ------------------------------------------------------------------------
\* C18: after pad_file the length is a multiple of 64, the original content
\* is a prefix of the new content, every appended byte is 0x00, fewer than 64
\* bytes are appended and an aligned file (the empty one included) is not
\* written; a second pad_file writes nothing and leaves the content as it is.
C18_PadToBlock ==
    /\ (pad_pc \in {"second", "done"}) =>
          /\ Len(pad_first) % 64 = 0
          /\ Len(pad_first) >= Len(pad_in)
          /\ SubSeq(pad_first, 1, Len(pad_in)) = pad_in
          /\ \A k \in (Len(pad_in) + 1)..Len(pad_first) : pad_first[k] = 0
          /\ Len(pad_first) - Len(pad_in) < 64
          /\ pad_writes = (IF Len(pad_in) % 64 = 0 THEN 0 ELSE 1)
    /\ (pad_pc = "done") => (pad_data = pad_first)

\* C18 witness: a file of more than one block, not aligned, was padded once
\* and left alone by the second run
C18_Witness ==
    /\ pad_pc = "done"
    /\ pad_writes = 1
    /\ Len(pad_in) > 64
    /\ pad_in[1] # 0
    /\ Len(pad_data) = 128

\* ------------------------------------------------------------------------
\* Claims on make_pdf, checked under SpecMake
\* ------------------------------------------------------------------------
\* the offset held by the N-th in-use entry of the table: the ten digits of
\* the (N+1)-th 20-byte entry behind the "0 <count>" line
XrefEntryValue(b, N) ==
    LET first == Find(b, << 10 >>, XrefOffset(b) + 5) + 1
    IN  DigitsValue(SubSeq(b, first + 20 * N + 1, first + 20 * N + 10))

\* 0-based offset at which the text "N 0 obj" of object N's header begins
ObjOffset(b, N) == Find(b, ObjHeader(N), 0) + 1

\* C20 (as claimed): in the bytes make_pdf returns, for every N in 1..8 the
\* N-th in-use xref entry holds the offset at which "N 0 obj" begins, and the
\* number after startxref is the offset of the xref table.
C20_XrefMapsObjects ==
    mk_pc = "returned" =>
        /\ \A N \in 1..8 :
              /\ Find(mk_out, ObjHeader(N), 0) >= 0
              /\ XrefEntryValue(mk_out, N) = ObjOffset(mk_out, N)
        /\ LET p == Find(mk_out, StartxrefMarker, XrefOffset(mk_out))
                       + Len(StartxrefMarker)
           IN  DigitRun(mk_out, p) = FmtInt(XrefOffset(mk_out))

\* 0-based offset of the first payload byte: behind " >>\nstream\n" of object 4
PayloadOffset(b) == Find(b, MkStreamWord, ObjOffset(b, 4)) + Len(MkStreamWord)

\* the decimal number behind "/Length " in the dictionary of object 4
DeclaredLength(b) ==
    DigitRun(b, Find(b, << 47, 76, 101, 110, 103, 116, 104, 32 >>, ObjOffset(b, 4)) + 8)

\* C21 (as claimed): for two make_pdf outputs on payloads of equal length,
\* the payload starts at the same byte offset in both, whatever the two
\* titles are, and the /Length of the EmbeddedFile stream is the payload length.
C21_PayloadOffsetFixed ==
    mk_pc = "returned2" =>
        /\ PayloadOffset(mk_out) = PayloadOffset(mk_out2)
        /\ DeclaredLength(mk_out) = FmtInt(Len(mk_payload))
        /\ DeclaredLength(mk_out2) = FmtInt(Len(mk_payload2))

\* ------------------------------------------------------------------------
\* Further claims on jpeg_find_second_com, checked under SpecJpeg
\* ------------------------------------------------------------------------
\* C22 (as claimed): the fourth value returned, next_from_marker, is
\* len_pos + length, the offset at which the segment behind the second COM
\* begins; when the data goes on there with a marker, data[next_from_marker]
\* is its 0xFF.
C22_NextFromMarker ==
    (jp_pc = "returned" /\ jp_res # JpNone) =>
        /\ jp_res[4] = jp_res[2] + jp_res[3]
        /\ (jp_res[2] + jp_res[3] < Len(jp_data)
              /\ jp_data[jp_res[2] + jp_res[3] + 1] = 255) =>
               (jp_res[4] < Len(jp_data) /\ jp_data[jp_res[4] + 1] = 255)

\* ------------------------------------------------------------------------
\* Further claims on adjustPDF, checked under SpecPdf
\* ------------------------------------------------------------------------
\* 0-based offset of the first byte behind the decimal value after startxref
AfterStartxrefValue(b) ==
    StartxrefValueOffset(b) + Len(DigitRun(b, StartxrefValueOffset(b)))

\* C23 (as claimed): for an input with a terminated table and a startxref
\* line, the bytes adjustPDF returns equal the input before the xref
\* keyword, between the end of the table and the startxref value (the
\* trailer), and from the end of the startxref value on (the %%EOF token
\* and everything behind it).
C23_AdjustFrame ==
    (pdf_pc \in {"adjusted", "written", "readjusted"} /\ PdfWellFormed(pdf_in)) =>
        /\ PdfWellFormed(pdf_out)
        /\ SliceTo(pdf_out, XrefOffset(pdf_out)) = SliceTo(pdf_in, XrefOffset(pdf_in))
        /\ Slice(pdf_out, XrefEndOffset(pdf_out), StartxrefValueOffset(pdf_out))
             = Slice(pdf_in, XrefEndOffset(pdf_in), StartxrefValueOffset(pdf_in))
        /\ SliceFrom(pdf_out, AfterStartxrefValue(pdf_out))
             = SliceFrom(pdf_in, AfterStartxrefValue(pdf_in))

\* ------------------------------------------------------------------------
\* Claim on the loop of jpeg_find_second_com, checked under SpecJpegFair
\* ------------------------------------------------------------------------
\* C24: jpeg_find_second_com returns on every input; i is larger after each
\* iteration that stays in the loop than before it; every index at which an
\* iteration reads data is at least 0 and below len(data).
C24_TerminatesInBounds ==
    /\ <>(jp_pc = "returned")
    /\ [][(jp_pc = "loop" /\ jp_pc' = "loop") => jp_i' > jp_i]_vars
    /\ []((jp_pc = "loop" /\ jp_i + 3 <= Len(jp_data)) =>
            \A k \in JpegReads(jp_data, jp_i) : 0 <= k /\ k < Len(jp_data))

\* C24 witness: the second comment was found behind an APP0 segment that
\* declares length 0
C24_Witness ==
    /\ jp_pc = "returned"
    /\ jp_res # JpNone
    /\ Len(jp_data) >= 6
    /\ SubSeq(jp_data, 3, 6) = << 255, 224, 0, 0 >>

====
